---- MODULE Spec2Model ----
(***************************************************************************)
(* Retail demand-forecasting feature builders: the calendar event tagger   *)
(* (time_calendar.py), the grouped time-series feature engine (sales.py)   *)
(* and the external join adapters (maco_economic.py, stocks.py).           *)
(*                                                                         *)
(* A table (pandas DataFrame) is [cols |-> set of column names,            *)
(* rows |-> sequence of rows]; a row is a function from column names to    *)
(* values and also carries its index label under "index".  A timestamp is  *)
(* [day |-> days since 1970-01-01, tod |-> time of day in ticks]; a missing *)
(* value (NaN) of a derived numeric column is <<>>, a present one <<v>>,    *)
(* and a mean or variance is the exact fraction <<numerator, denominator>>. *)
(***************************************************************************)
EXTENDS Integers, Sequences, FiniteSets, TLC

\* df: the table passed to the operation; aux: the second table of a join
\* (FX, inflation or stock rows); out: the table the operation returned;
\* last: the operation called; pc: "input" before the call, then "returned"
\* or "raised"
\* ranges_arg: the ramadan_ranges argument of add_total_sales_last_ramadan
VARIABLES df, aux, ranges_arg, out, last, pc

vars == <<df, aux, ranges_arg, out, last, pc>>

(***************************************************************************)
(* Bounds of the model.                                                    *)
(***************************************************************************)
\* calendar inputs range over every day of FirstYear..LastYear
FirstYear == 2019
LastYear == 2036
\* times of day 0..MaxTod, 0 being midnight
MaxTod == 1
\* the engine's small inputs: every table of at most MaxRows rows
MaxRows == 3
\* the Ramadan aggregate's and the join adapters' inputs: every table of at
\* most MaxJoinRows rows
MaxJoinRows == 2
\* the engine's series inputs: a window or lag of n rows is tried on groups
\* of n .. n + MaxExtra rows
MaxExtra == 1
\* the stock features' inputs: every table of at most MaxStockRows rows
MaxStockRows == 2

(***************************************************************************)
(* Dates: pd.to_datetime of a 'YYYY-MM-DD' literal, and the .dt accessors. *)
(***************************************************************************)
DaysFromCivil(y, m, d) ==
    LET yy  == IF m <= 2 THEN y - 1 ELSE y
        era == yy \div 400
        yoe == yy - era * 400
        mp  == IF m > 2 THEN m - 3 ELSE m + 9
        doy == (153 * mp + 2) \div 5 + d - 1
        doe == yoe * 365 + yoe \div 4 - yoe \div 100 + doy
    IN  era * 146097 + doe - 719468

CivilFromDays(z) ==
    LET zz  == z + 719468
        era == zz \div 146097
        doe == zz - era * 146097
        yoe == (doe - doe \div 1460 + doe \div 36524 - doe \div 146096) \div 365
        doy == doe - (365 * yoe + yoe \div 4 - yoe \div 100)
        mp  == (5 * doy + 2) \div 153
        d   == doy - (153 * mp + 2) \div 5 + 1
        m   == IF mp < 10 THEN mp + 3 ELSE mp - 9
        y   == yoe + era * 400 + (IF m <= 2 THEN 1 ELSE 0)
    IN  [year |-> y, month |-> m, day |-> d]

\* pd.to_datetime("y-m-d"): midnight of that day
to_datetime(ymd) == [day |-> DaysFromCivil(ymd[1], ymd[2], ymd[3]), tod |-> 0]

\* Timestamp comparison (>=, <=) as pandas compares datetime64 values
TsLe(a, b) == a.day < b.day \/ (a.day = b.day /\ a.tod <= b.tod)

dt_year(ts) == CivilFromDays(ts.day).year
dt_month(ts) == CivilFromDays(ts.day).month
dt_day(ts) == CivilFromDays(ts.day).day
\* Monday=0 ... Sunday=6; 1970-01-01 was a Thursday
dt_weekday(ts) == (ts.day + 3) % 7
\* date + pd.Timedelta(days=n)
AddDays(ts, n) == [day |-> ts.day + n, tod |-> ts.tod]

(***************************************************************************)
(* Tables.                                                                 *)
(***************************************************************************)
\* df[col] = value, row by row: adds the column or overwrites it
SetCol(r, col, v) == (col :> v) @@ r

EmptyTable == [cols |-> {}, rows |-> <<>>]

\* df[col] = vals: the table with column col set to the values vals, which
\* are aligned with the rows
WithColumn(t, col, vals) ==
    [cols |-> t.cols \cup {col},
     rows |-> [i \in 1..Len(t.rows) |-> SetCol(t.rows[i], col, vals[i])] \o <<>>]

(***************************************************************************)
(* Interval tables of time_calendar.py.                                    *)
(***************************************************************************)
ramadan_ranges == <<
    << <<2020, 4, 24>>, <<2020, 5, 23>> >>,
    << <<2021, 4, 13>>, <<2021, 5, 12>> >>,
    << <<2022, 4, 2>>,  <<2022, 5, 1>> >>,
    << <<2023, 3, 23>>, <<2023, 4, 21>> >>,
    << <<2024, 3, 10>>, <<2024, 4, 9>> >>,
    << <<2025, 2, 28>>, <<2025, 3, 29>> >>,
    << <<2026, 2, 17>>, <<2026, 3, 18>> >>,
    << <<2027, 2, 7>>,  <<2027, 3, 8>> >>,
    << <<2028, 1, 27>>, <<2028, 2, 25>> >>,
    << <<2029, 1, 15>>, <<2029, 2, 13>> >>,
    << <<2030, 1, 5>>,  <<2030, 2, 3>> >>,
    << <<2030, 12, 26>>, <<2031, 1, 24>> >>,
    << <<2031, 12, 15>>, <<2032, 1, 13>> >>,
    << <<2032, 12, 3>>, <<2033, 1, 1>> >>,
    << <<2033, 11, 23>>, <<2033, 12, 22>> >>,
    << <<2034, 11, 11>>, <<2034, 12, 10>> >>,
    << <<2035, 11, 1>>, <<2035, 11, 30>> >> >>

eid_fitr_ranges == <<
    << <<2020, 5, 24>>, <<2020, 5, 26>> >>,
    << <<2021, 5, 13>>, <<2021, 5, 15>> >>,
    << <<2022, 5, 2>>,  <<2022, 5, 4>> >>,
    << <<2023, 4, 21>>, <<2023, 4, 23>> >>,
    << <<2024, 4, 10>>, <<2024, 4, 12>> >>,
    << <<2025, 3, 30>>, <<2025, 4, 1>> >>,
    << <<2026, 3, 19>>, <<2026, 3, 21>> >>,
    << <<2027, 3, 9>>,  <<2027, 3, 11>> >>,
    << <<2028, 2, 26>>, <<2028, 2, 28>> >>,
    << <<2029, 2, 14>>, <<2029, 2, 16>> >>,
    << <<2030, 2, 4>>,  <<2030, 2, 6>> >>,
    << <<2031, 1, 25>>, <<2031, 1, 27>> >>,
    << <<2032, 1, 14>>, <<2032, 1, 16>> >>,
    << <<2033, 1, 2>>,  <<2033, 1, 4>> >>,
    << <<2033, 12, 23>>, <<2033, 12, 25>> >>,
    << <<2034, 12, 11>>, <<2034, 12, 13>> >>,
    << <<2035, 12, 1>>, <<2035, 12, 3>> >> >>

eid_adha_ranges == <<
    << <<2020, 7, 31>>, <<2020, 8, 3>> >>,
    << <<2021, 7, 20>>, <<2021, 7, 23>> >>,
    << <<2022, 7, 9>>,  <<2022, 7, 12>> >>,
    << <<2023, 6, 28>>, <<2023, 7, 1>> >>,
    << <<2024, 6, 16>>, <<2024, 6, 19>> >>,
    << <<2025, 6, 6>>,  <<2025, 6, 9>> >>,
    << <<2026, 5, 27>>, <<2026, 5, 30>> >>,
    << <<2027, 5, 17>>, <<2027, 5, 20>> >>,
    << <<2028, 5, 5>>,  <<2028, 5, 8>> >>,
    << <<2029, 4, 24>>, <<2029, 4, 27>> >>,
    << <<2030, 4, 14>>, <<2030, 4, 17>> >>,
    << <<2031, 4, 4>>,  <<2031, 4, 7>> >>,
    << <<2032, 3, 23>>, <<2032, 3, 26>> >>,
    << <<2033, 3, 12>>, <<2033, 3, 15>> >>,
    << <<2034, 3, 1>>,  <<2034, 3, 4>> >>,
    << <<2035, 2, 18>>, <<2035, 2, 21>> >> >>

lent_periods == <<
    << <<2020, 2, 24>>, <<2020, 4, 18>> >>,
    << <<2021, 3, 8>>,  <<2021, 5, 1>> >>,
    << <<2022, 2, 28>>, <<2022, 4, 23>> >>,
    << <<2023, 3, 6>>,  <<2023, 4, 15>> >>,
    << <<2024, 3, 18>>, <<2024, 5, 11>> >>,
    << <<2025, 3, 3>>,  <<2025, 4, 26>> >>,
    << <<2026, 2, 16>>, <<2026, 4, 11>> >>,
    << <<2027, 3, 8>>,  <<2027, 5, 1>> >>,
    << <<2028, 2, 21>>, <<2028, 4, 15>> >>,
    << <<2029, 3, 5>>,  <<2029, 4, 28>> >>,
    << <<2030, 2, 18>>, <<2030, 4, 13>> >>,
    << <<2031, 3, 10>>, <<2031, 5, 3>> >>,
    << <<2032, 2, 23>>, <<2032, 4, 17>> >>,
    << <<2033, 3, 7>>,  <<2033, 4, 30>> >>,
    << <<2034, 2, 20>>, <<2034, 4, 15>> >>,
    << <<2035, 3, 5>>,  <<2035, 4, 28>> >> >>

\* the ranges with both ends parsed by pd.to_datetime
ParsedRanges(ranges) ==
    [i \in 1..Len(ranges) |->
        [start |-> to_datetime(ranges[i][1]), end |-> to_datetime(ranges[i][2])]]

RamadanParsed == ParsedRanges(ramadan_ranges)
EidFitrParsed == ParsedRanges(eid_fitr_ranges)
EidAdhaParsed == ParsedRanges(eid_adha_ranges)
LentParsed == ParsedRanges(lent_periods)

(***************************************************************************)
(* Moving-holiday flags (time_calendar.py).                                *)
(***************************************************************************)
\* (mutant of Mask: the end of a range excluded)
MaskEndExclusive(ts, rng) ==
    TsLe(rng.start, ts) /\ TsLe(ts, rng.end) /\ ts # rng.end

\* mask = (df[date_col] >= start) & (df[date_col] <= end), for one row
Mask(ts, rng) == TsLe(rng.start, ts) /\ TsLe(ts, rng.end)

\* for start, end in ranges: df.loc[mask, new_col] = True
RECURSIVE MarkRanges(_, _, _, _, _)
MarkRanges(t, date_col, new_col, ranges, i) ==
    IF i > Len(ranges) THEN t
    ELSE MarkRanges(
            WithColumn(t, new_col,
                [k \in 1..Len(t.rows) |->
                    IF Mask(t.rows[k][date_col], ranges[i]) THEN TRUE
                    ELSE t.rows[k][new_col]]),
            date_col, new_col, ranges, i + 1)

\* df[new_col] = False, then the loop over the ranges
RangeFlag(t, date_col, new_col, ranges) ==
    MarkRanges(WithColumn(t, new_col, [k \in 1..Len(t.rows) |-> FALSE]),
               date_col, new_col, ranges, 1)

add_is_ramadan_feature(t) == RangeFlag(t, "Date", "is_ramadan", RamadanParsed)
add_is_eid_fitr_feature(t) == RangeFlag(t, "Date", "is_eid_fitr", EidFitrParsed)
add_is_eid_adha_feature(t) == RangeFlag(t, "Date", "is_eid_adha", EidAdhaParsed)
add_is_great_lent_feature(t) == RangeFlag(t, "Date", "is_great_lent", LentParsed)

(***************************************************************************)
(* Rule-based calendar features (time_calendar.py).                        *)
(***************************************************************************)
\* (mutant of get_retail_event: back to school ends before Aug 31)
get_retail_event_aug30(date) ==
    LET month   == dt_month(date)
        day     == dt_day(date)
        weekday == dt_weekday(date)
    IN  IF month = 12 THEN "christmas_dec"
        ELSE IF month = 1 /\ day = 7 THEN "coptic_christmas"
        ELSE IF month = 2 /\ day = 14 THEN "valentines"
        ELSE IF month = 3 /\ day = 21 THEN "mothers_day"
        ELSE IF month = 11 /\ weekday = 4 /\ dt_month(AddDays(date, 7)) # 11
             THEN "black_friday"
        ELSE IF month = 8 /\ 15 <= day /\ day < 31 THEN "back_to_school"
        ELSE "none"

\* (mutant of get_retail_event: every Friday of November is black_friday)
get_retail_event_every_friday(date) ==
    LET month   == dt_month(date)
        day     == dt_day(date)
        weekday == dt_weekday(date)
    IN  IF month = 12 THEN "christmas_dec"
        ELSE IF month = 1 /\ day = 7 THEN "coptic_christmas"
        ELSE IF month = 2 /\ day = 14 THEN "valentines"
        ELSE IF month = 3 /\ day = 21 THEN "mothers_day"
        ELSE IF month = 11 /\ weekday = 4 THEN "black_friday"
        ELSE IF month = 8 /\ 15 <= day /\ day <= 31 THEN "back_to_school"
        ELSE "none"

get_retail_event(date) ==
    LET month   == dt_month(date)
        day     == dt_day(date)
        weekday == dt_weekday(date)
    IN  IF month = 12 THEN "christmas_dec"
        ELSE IF month = 1 /\ day = 7 THEN "coptic_christmas"
        ELSE IF month = 2 /\ day = 14 THEN "valentines"
        ELSE IF month = 3 /\ day = 21 THEN "mothers_day"
        ELSE IF month = 11 /\ weekday = 4 /\ dt_month(AddDays(date, 7)) # 11
             THEN "black_friday"
        ELSE IF month = 8 /\ 15 <= day /\ day <= 31 THEN "back_to_school"
        ELSE "none"

add_retail_event_feature(t) ==
    WithColumn(t, "retail_event",
        [k \in 1..Len(t.rows) |-> get_retail_event(t.rows[k]["Date"])])

\* (mutant of add_is_weekend_feature: Saturday and Sunday)
add_is_weekend_feature_sat_sun(t) ==
    WithColumn(t, "is_weekend",
        [k \in 1..Len(t.rows) |-> dt_weekday(t.rows[k]["Date"]) \in {5, 6}])

\* dt.weekday.isin([4, 5])
add_is_weekend_feature(t) ==
    WithColumn(t, "is_weekend",
        [k \in 1..Len(t.rows) |-> dt_weekday(t.rows[k]["Date"]) \in {4, 5}])

(***************************************************************************)
(* Grouped time-series feature engine (sales.py).                          *)
(***************************************************************************)
\* (mutant of GroupKey: grouped by store alone)
GroupKeyStoreOnly(r) == <<r["Store No_"]>>

\* group_cols = ['Store No_', 'Item No_']
GroupKey(r) == <<r["Store No_"], r["Item No_"]>>

\* strict order of sort_values(by=group_cols + [date_col]): store, then item,
\* then date
SortLt(a, b) ==
    \/ a["Store No_"] < b["Store No_"]
    \/ /\ a["Store No_"] = b["Store No_"]
       /\ \/ a["Item No_"] < b["Item No_"]
          \/ /\ a["Item No_"] = b["Item No_"]
             /\ ~TsLe(b["Date"], a["Date"])

\* (mutant of sort_values: rows with equal keys come out in reverse order)
sort_values_ties_reversed(rows) ==
    LET n    == Len(rows)
        rank == [i \in 1..n |->
                    Cardinality({j \in 1..n :
                        \/ SortLt(rows[j], rows[i])
                        \/ (~SortLt(rows[i], rows[j]) /\ j >= i)})] \o <<>>
    IN  [p \in 1..n |-> rows[CHOOSE i \in 1..n : rank[i] = p]] \o <<>>

\* df.sort_values(by=[several columns]): pandas sorts several keys with a
\* stable lexsort, so rows with equal keys keep their input order; the rows
\* keep their index labels
sort_values(rows) ==
    LET n    == Len(rows)
        rank == [i \in 1..n |->
                    Cardinality({j \in 1..n :
                        \/ SortLt(rows[j], rows[i])
                        \/ (~SortLt(rows[i], rows[j]) /\ j <= i)})] \o <<>>
    IN  [p \in 1..n |-> rows[CHOOSE i \in 1..n : rank[i] = p]] \o <<>>

\* the values of column col of the rows of group g, in row order
RECURSIVE GroupValues(_, _, _, _)
GroupValues(rows, g, col, i) ==
    IF i > Len(rows) THEN <<>>
    ELSE IF GroupKey(rows[i]) = g
         THEN <<rows[i][col]>> \o GroupValues(rows, g, col, i + 1)
         ELSE GroupValues(rows, g, col, i + 1)

\* the position of row i among the rows of its group
GroupPos(rows, i) ==
    Cardinality({j \in 1..i : GroupKey(rows[j]) = GroupKey(rows[i])})

\* x.rolling(window, min_periods).mean(): the sliding sum and the number of
\* observations in the window, the oldest one leaving once the window is
\* full; the mean sum/nobs is kept as the fraction <<sum, nobs>>
RECURSIVE RollMean(_, _, _, _, _, _)
RollMean(x, window, min_periods, k, sum, acc) ==
    IF k > Len(x) THEN acc
    ELSE LET s    == sum + x[k] - (IF k > window THEN x[k - window] ELSE 0)
             nobs == IF k > window THEN window ELSE k
         IN  RollMean(x, window, min_periods, k + 1, s,
                      Append(acc, IF nobs >= min_periods THEN <<s, nobs>> ELSE <<>>))

\* (mutant of rolling_mean: min_periods left at its default, the window)
rolling_mean_full_window(x, window, min_periods) ==
    RollMean(x, window, window, 1, 0, <<>>)

rolling_mean(x, window, min_periods) == RollMean(x, window, min_periods, 1, 0, <<>>)

\* x.rolling(window, min_periods).std(), ddof = 1: from the sliding sum and
\* sum of squares; the value kept is the variance (the square of the standard
\* deviation) as the fraction <<nobs*sumsq - sum^2, nobs*(nobs-1)>>, missing
\* when the window holds fewer than two observations
RECURSIVE RollStd(_, _, _, _, _, _, _)
RollStd(x, window, min_periods, k, sum, sumsq, acc) ==
    IF k > Len(x) THEN acc
    ELSE LET old  == IF k > window THEN x[k - window] ELSE 0
             s    == sum + x[k] - old
             sq   == sumsq + x[k] * x[k] - old * old
             nobs == IF k > window THEN window ELSE k
         IN  RollStd(x, window, min_periods, k + 1, s, sq,
                     Append(acc, IF nobs >= min_periods /\ nobs > 1
                                 THEN <<nobs * sq - s * s, nobs * (nobs - 1)>>
                                 ELSE <<>>))

\* (mutant of rolling_std: the population variance, ddof = 0)
RECURSIVE RollStdPop(_, _, _, _, _, _, _)
RollStdPop(x, window, min_periods, k, sum, sumsq, acc) ==
    IF k > Len(x) THEN acc
    ELSE LET old  == IF k > window THEN x[k - window] ELSE 0
             s    == sum + x[k] - old
             sq   == sumsq + x[k] * x[k] - old * old
             nobs == IF k > window THEN window ELSE k
         IN  RollStdPop(x, window, min_periods, k + 1, s, sq,
                        Append(acc, IF nobs >= min_periods
                                    THEN <<nobs * sq - s * s, nobs * nobs>>
                                    ELSE <<>>))

rolling_std_ddof0(x, window, min_periods) ==
    RollStdPop(x, window, min_periods, 1, 0, 0, <<>>)

rolling_std(x, window, min_periods) == RollStd(x, window, min_periods, 1, 0, 0, <<>>)

\* x.shift(periods): the value periods rows earlier, missing for the first
\* periods rows
shift(x, periods) ==
    [k \in 1..Len(x) |-> IF k > periods THEN <<x[k - periods]>> ELSE <<>>] \o <<>>

\* f applied to the values of each group of keys, in row order: the function
\* from group key to the group's result
RECURSIVE GroupResults(_, _, _, _, _)
GroupResults(keys, rows, value_col, kind, n) ==
    IF keys = {} THEN <<>>
    ELSE LET g == CHOOSE k \in keys : TRUE
             x == GroupValues(rows, g, value_col, 1)
             r == CASE kind = "mean"  -> rolling_mean(x, n, 1)
                    [] kind = "std"   -> rolling_std(x, n, 1)
                    [] kind = "shift" -> shift(x, n)
         IN  (g :> r) @@ GroupResults(keys \ {g}, rows, value_col, kind, n)

\* (mutant of GroupedColumn: f applied to the whole column, the groups
\* ignored)
GroupedColumnUngrouped(rows, value_col, kind, n) ==
    LET x == [i \in 1..Len(rows) |-> rows[i][value_col]] \o <<>>
    IN  CASE kind = "mean"  -> rolling_mean(x, n, 1)
          [] kind = "std"   -> rolling_std(x, n, 1)
          [] kind = "shift" -> shift(x, n)

\* df.groupby(group_cols)[value_col].transform(f) / .shift(n): f applied to
\* each group's values in row order, each result put back on its own row
GroupedColumn(rows, value_col, kind, n) ==
    LET keys == {GroupKey(rows[i]) : i \in 1..Len(rows)}
        res  == GroupResults(keys, rows, value_col, kind, n)
    IN  [i \in 1..Len(rows) |-> res[GroupKey(rows[i])][GroupPos(rows, i)]] \o <<>>

\* the common body of the rolling and lag builders: copy, sort by group and
\* date, add the grouped column
GroupedFeature(t, new_col, kind, n) ==
    LET sorted == sort_values(t.rows)
    IN  WithColumn([cols |-> t.cols, rows |-> sorted], new_col,
                   GroupedColumn(sorted, "Net Amount", kind, n))

add_rolling_avg_sales_7d(t) == GroupedFeature(t, "rolling_avg_7d", "mean", 7)
add_rolling_avg_sales_15d(t) == GroupedFeature(t, "rolling_avg_15d", "mean", 15)
add_rolling_avg_sales_30d(t) == GroupedFeature(t, "rolling_avg_30d", "mean", 30)
add_sales_lag_1d(t) == GroupedFeature(t, "sales_lag_1d", "shift", 1)
add_sales_lag_7d(t) == GroupedFeature(t, "sales_lag_7d", "shift", 7)
add_std_dev_sales_15d(t) == GroupedFeature(t, "std_dev_sales_15d", "std", 15)
add_last_year_same_period_sales(t) ==
    GroupedFeature(t, "last_year_same_period_sales", "shift", 365)

(***************************************************************************)
(* Ramadan aggregate (sales.py).                                           *)
(***************************************************************************)
\* the table used when ramadan_ranges is None
default_ramadan_ranges == <<
    << <<2024, 3, 10>>, <<2024, 4, 8>> >>,
    << <<2025, 2, 28>>, <<2025, 3, 30>> >>,
    << <<2026, 2, 18>>, <<2026, 3, 19>> >>,
    << <<2027, 2, 7>>,  <<2027, 3, 8>> >>,
    << <<2028, 1, 27>>, <<2028, 2, 25>> >>,
    << <<2029, 1, 15>>, <<2029, 2, 13>> >>,
    << <<2030, 1, 5>>,  <<2030, 2, 3>> >>,
    << <<2031, 12, 26>>, <<2032, 1, 24>> >>,
    << <<2032, 12, 14>>, <<2033, 1, 12>> >>,
    << <<2033, 12, 4>>, <<2034, 1, 2>> >>,
    << <<2034, 11, 23>>, <<2034, 12, 22>> >>,
    << <<2035, 11, 12>>, <<2035, 12, 11>> >> >>

\* the ramadan_ranges argument: [given |-> FALSE] is None, otherwise the
\* list the caller passes
ResolveRanges(arg) ==
    ParsedRanges(IF arg.given THEN arg.ranges ELSE default_ramadan_ranges)

\* (mutant of anchor_year: the year of the end of the range)
anchor_year_of_end(rng) == dt_year(rng.end)

\* period_df['ramadan_year'] = pd.to_datetime(start).year
anchor_year(rng) == dt_year(rng.start)

\* period_df: the rows of the range, each with the range's ramadan_year
RECURSIVE PeriodRows(_, _, _)
PeriodRows(rows, rng, i) ==
    IF i > Len(rows) THEN <<>>
    ELSE (IF Mask(rows[i]["Date"], rng)
          THEN <<SetCol(rows[i], "ramadan_year", anchor_year(rng))>>
          ELSE <<>>) \o PeriodRows(rows, rng, i + 1)

\* ramadan_df: the period rows of all ranges, concatenated
RECURSIVE RamadanDf(_, _, _)
RamadanDf(rows, ranges, k) ==
    IF k > Len(ranges) THEN <<>>
    ELSE PeriodRows(rows, ranges[k], 1) \o RamadanDf(rows, ranges, k + 1)

RECURSIVE SumAmounts(_, _, _)
SumAmounts(rows, key, i) ==
    IF i > Len(rows) THEN 0
    ELSE (IF <<rows[i]["Store No_"], rows[i]["Item No_"], rows[i]["ramadan_year"]>> = key
          THEN rows[i]["Net Amount"] ELSE 0) + SumAmounts(rows, key, i + 1)

\* ramadan_sum: groupby(group_cols + ['ramadan_year'])[value_col].sum(), the
\* function from (store, item, ramadan_year) to the sum
RamadanSum(rdf) ==
    [key \in {<<rdf[i]["Store No_"], rdf[i]["Item No_"], rdf[i]["ramadan_year"]>> :
                 i \in 1..Len(rdf)} |-> SumAmounts(rdf, key, 1)]

\* df.drop(columns=..., errors='ignore'), for one row
DropCols(r, cols) == [c \in DOMAIN r \ cols |-> r[c]]

\* df['year'] = dt.year; the left merge on group_cols + year against
\* group_cols + ramadan_year, which renumbers the index; then the drop of
\* 'year' and 'ramadan_year'.  A column of df that is no merge key and has
\* the name of a column of ramadan_sum (new_col, when df already has it)
\* comes out of the merge twice, with the suffixes _x (df's) and _y.
add_total_sales_last_ramadan(t, arg) ==
    LET new_col == "total_sales_last_ramadan"
        clash  == new_col \in t.cols
        left   == IF clash THEN "total_sales_last_ramadan_x" ELSE new_col
        right  == IF clash THEN "total_sales_last_ramadan_y" ELSE new_col
        sums   == RamadanSum(RamadanDf(t.rows, ResolveRanges(arg), 1))
        merged == [i \in 1..Len(t.rows) |->
                    LET r0  == SetCol(t.rows[i], "year", dt_year(t.rows[i]["Date"]))
                        r   == IF clash
                               THEN SetCol(DropCols(r0, {new_col}), left, r0[new_col])
                               ELSE r0
                        key == <<r["Store No_"], r["Item No_"], r["year"]>>
                    IN  SetCol(SetCol(SetCol(r, "index", i - 1),
                            "ramadan_year",
                            IF key \in DOMAIN sums THEN <<key[3]>> ELSE <<>>),
                            right,
                            IF key \in DOMAIN sums THEN <<sums[key]>> ELSE <<>>)]
    IN  [cols |-> (((t.cols \ {new_col}) \cup {left, right})
                      \cup {"year", "ramadan_year"}) \ {"year", "ramadan_year"},
         rows |-> [i \in 1..Len(t.rows) |->
                      DropCols(merged[i], {"year", "ramadan_year"})] \o <<>>]

(***************************************************************************)
(* External join adapters (maco_economic.py, stocks.py).                   *)
(***************************************************************************)
\* the merge key of a row: the date itself, or dt.to_period('M'), the
\* (year, month) of the date
JoinKey(r, kind) ==
    IF kind = "date" THEN <<r["Date"].day, r["Date"].tod>>
    ELSE <<dt_year(r["Date"]), dt_month(r["Date"])>>

\* the values of column col of the rows of right whose key equals key
RECURSIVE Matches(_, _, _, _, _)
Matches(right, key, kind, col, j) ==
    IF j > Len(right) THEN <<>>
    ELSE (IF JoinKey(right[j], kind) = key THEN <<right[j][col]>> ELSE <<>>)
         \o Matches(right, key, kind, col, j + 1)

\* pd.merge(df, right[[key, col]], how='left'), the joined column renamed to
\* new_col: every row of df in order, once per matching row of right, or
\* once with a missing value when none matches
RECURSIVE LeftMerge(_, _, _, _, _, _)
LeftMerge(rows, right, kind, col, new_col, i) ==
    IF i > Len(rows) THEN <<>>
    ELSE LET m == Matches(right, JoinKey(rows[i], kind), kind, col, 1)
         IN  (IF m = <<>> THEN <<SetCol(rows[i], new_col, <<>>)>>
              ELSE [k \in 1..Len(m) |-> SetCol(rows[i], new_col, <<m[k]>>)])
             \o LeftMerge(rows, right, kind, col, new_col, i + 1)

\* merged[new_col].fillna(method='ffill'): a missing value takes the last
\* present value of the rows above it, in the order of the rows of the table
RECURSIVE Ffill(_, _, _, _)
Ffill(rows, col, i, prev) ==
    IF i > Len(rows) THEN <<>>
    ELSE LET v == IF rows[i][col] = <<>> THEN prev ELSE rows[i][col]
         IN  <<SetCol(rows[i], col, v)>> \o Ffill(rows, col, i + 1, v)

\* a merge result gets a new RangeIndex
ResetIndex(rows) == [i \in 1..Len(rows) |-> SetCol(rows[i], "index", i - 1)] \o <<>>

DropColumn(rows, cols) == [i \in 1..Len(rows) |-> DropCols(rows[i], cols)] \o <<>>

\* add_fx_rate with its default column names: date_col and fx_date_col are
\* both 'Date', so the merge keeps one 'Date' column, and the drop of
\* fx_date_col removes it
add_fx_rate(t, fx) ==
    LET merged == ResetIndex(LeftMerge(t.rows, fx.rows, "date", "fx_rate", "fx_rate", 1))
        filled == Ffill(DropColumn(merged, {"Date"}), "fx_rate", 1, <<>>)
    IN  [cols |-> (t.cols \cup {"Date", "fx_rate"}) \ {"Date"}, rows |-> filled]

\* add_fx_rate raises KeyError when df has no date_col (df[date_col]), and
\* when df already has a column named fx_col: the merge then yields
\* fx_rate_x and fx_rate_y, and merged[new_col] does not exist
add_fx_rate_raises(t) == "Date" \notin t.cols \/ "fx_rate" \in t.cols

\* add_inflation_index: df['year_month'] is set, used as the merge key and
\* dropped
add_inflation_index(t, infl) ==
    LET merged == ResetIndex(LeftMerge(t.rows, infl.rows, "year_month",
                                       "inflation_index", "inflation_index", 1))
        filled == Ffill(DropColumn(merged, {"year_month"}), "inflation_index", 1, <<>>)
    IN  [cols |-> (t.cols \cup {"year_month", "inflation_index"}) \ {"year_month"},
         rows |-> filled]

\* add_inflation_index raises KeyError when df has no date_col, and when df
\* already has a column named inflation_col: the merge then yields
\* inflation_index_x and inflation_index_y, and merged[new_col] does not exist
add_inflation_index_raises(t) == "Date" \notin t.cols \/ "inflation_index" \in t.cols

\* add_current_stock_qty with its default column names: the merge keys
\* (store, item, 'Date') have the same names on both sides, so the merge
\* result has one 'Date' column and no 'Date_y'; a column of both tables
\* that is no key ('Stock' in df_metrics) comes out as 'Stock_x', 'Stock_y'.
\* df_merged['Stock'] and drop(columns=['Date_y']) raise KeyError when the
\* column is absent.
add_current_stock_qty(t, stock) ==
    LET keys     == {"Store No_", "Item No_", "Date"}
        overlap  == (t.cols \cap {"Store No_", "Item No_", "Date", "Stock"}) \ keys
        hasStock == "Stock" \notin overlap
        hasDateY == "Date" \in overlap
    IN  IF hasStock /\ hasDateY
        THEN [raised |-> FALSE,
              table |-> [cols |-> t.cols \cup {"Stock", "current_stock_qty"},
                         rows |-> t.rows]]
        ELSE [raised |-> TRUE, table |-> EmptyTable]

(***************************************************************************)
(* Stock features (stocks.py).  A stock quantity is <<v>> or missing; an   *)
(* average, a ratio or a threshold is a fraction <<numerator, denominator>> *)
(* or missing; a float division by zero gives an infinity, <<1, 0>> or    *)
(* <<-1, 0>>, or, for 0/0, a missing value.                                *)
(***************************************************************************)
\* (mutant of replace_zero: zeros are left in place)
replace_zero_kept(x) == x

\* x.replace(0, pd.NA), for one value: a zero becomes missing
replace_zero(x) == IF x # <<>> /\ x[1] = 0 THEN <<>> ELSE x

\* stock / avg, for one row: missing when either side is missing
truediv(stock, avg) ==
    IF stock = <<>> \/ avg = <<>> THEN <<>>
    ELSE IF avg[1] = 0
         THEN (IF stock[1] = 0 THEN <<>>
               ELSE IF stock[1] > 0 THEN <<1, 0>> ELSE <<-1, 0>>)
         ELSE <<stock[1] * avg[2], avg[1]>>

add_stock_cover_days(t) ==
    WithColumn(t, "stock_cover_days",
        [k \in 1..Len(t.rows) |->
            truediv(t.rows[k]["current_stock_qty"],
                    replace_zero(t.rows[k]["rolling_avg_7d"]))])

\* df[avg_sales_col] * safety_factor, safety_factor = 15/100
add_safety_stock_threshold(t) ==
    WithColumn(t, "safety_stock_threshold",
        [k \in 1..Len(t.rows) |->
            LET avg == t.rows[k]["rolling_avg_15d"]
            IN  IF avg = <<>> THEN <<>> ELSE <<15 * avg[1], 100 * avg[2]>>])

(***************************************************************************)
(* Inputs.                                                                 *)
(***************************************************************************)
\* a table from rows without index labels: the default RangeIndex 0..n-1
Frame(cols, rows) ==
    [cols |-> cols,
     rows |-> [i \in 1..Len(rows) |-> SetCol(rows[i], "index", i - 1)]]

CalendarDays ==
    DaysFromCivil(FirstYear, 1, 1) .. DaysFromCivil(LastYear, 12, 31)

\* one observation, or two observations of the same calendar day
CalendarInputs ==
    { Frame({"Date"}, << [Date |-> [day |-> d, tod |-> t]] >>) :
        d \in CalendarDays, t \in 0..MaxTod }
    \cup
    { Frame({"Date"}, << [Date |-> [day |-> d, tod |-> t1]],
                         [Date |-> [day |-> d, tod |-> t2]] >>) :
        d \in CalendarDays, t1 \in 0..MaxTod, t2 \in 1..MaxTod }

SalesCols == {"Store No_", "Item No_", "Date", "Net Amount"}

SalesRow(store, item, day, amount) ==
    [c \in SalesCols |->
        CASE c = "Store No_" -> store
          [] c = "Item No_" -> item
          [] c = "Date" -> [day |-> day, tod |-> 0]
          [] c = "Net Amount" -> amount]

\* every sequence of at most n elements of S
RECURSIVE SeqsUpTo(_, _)
SeqsUpTo(S, n) ==
    IF n = 0 THEN {<<>>}
    ELSE LET shorter == SeqsUpTo(S, n - 1)
         IN  shorter \cup {Append(q, e) : q \in {x \in shorter : Len(x) = n - 1}, e \in S}

\* small inputs: two groups whose store order and item order disagree, two
\* days, two amounts, rows in any order and with repeats
SmallGroups == {<<1, 200>>, <<2, 100>>}
SmallDay == DaysFromCivil(2024, 1, 1)
SmallRows ==
    {SalesRow(g[1], g[2], SmallDay + d, v) :
        g \in SmallGroups, d \in {0, 1}, v \in {10, 20}}
SmallTables == {Frame(SalesCols, q) : q \in SeqsUpTo(SmallRows, MaxRows)}

\* series inputs: group (1, 200) observed daily from 2024-01-01 with the
\* amounts of a pattern: constant, the step 10,..,10,20,.. after the 7th
\* row, or a sawtooth
Pattern(p, k) ==
    CASE p = "constant" -> 10
      [] p = "step" -> IF k <= 7 THEN 10 ELSE 20
      [] p = "sawtooth" -> ((k * k) % 7) + (k % 3)

SeriesRows(n, p) == [k \in 1..n |-> SalesRow(1, 200, SmallDay + k - 1, Pattern(p, k))]

\* rows of two other groups, which sort right before and right after the
\* series
OtherRows ==
    << SalesRow(1, 100, SmallDay, 1000), SalesRow(2, 100, SmallDay + 1, 3000),
       SalesRow(1, 100, SmallDay + 1, 2000) >>

Reverse(q) == [i \in 1..Len(q) |-> q[Len(q) + 1 - i]]

Windows == {7, 15, 30, 365}

\* the year-long series, which only the 365-row lag needs, come with the
\* sawtooth amounts and the other groups' rows
SeriesTables ==
    { Frame(SalesCols,
            LET rows == SeriesRows(w + e, p) \o (IF others THEN OtherRows ELSE <<>>)
            IN  IF reversed THEN Reverse(rows) ELSE rows) :
        w \in Windows \ {365}, e \in 0..MaxExtra,
        p \in {"constant", "step", "sawtooth"},
        others \in BOOLEAN, reversed \in BOOLEAN }
    \cup
    { Frame(SalesCols,
            LET rows == SeriesRows(365 + e, "sawtooth") \o OtherRows
            IN  IF reversed THEN Reverse(rows) ELSE rows) :
        e \in 0..MaxExtra, reversed \in BOOLEAN }

\* inputs of the Ramadan aggregate: days inside and outside the ranges of
\* both Ramadan tables, in ranges that end in the next calendar year, and in
\* 2030, which has two ranges in the calendar table
RamadanDays ==
    { DaysFromCivil(2024, 3, 15), DaysFromCivil(2024, 4, 9), DaysFromCivil(2024, 5, 1),
      DaysFromCivil(2030, 1, 10), DaysFromCivil(2030, 12, 27),
      DaysFromCivil(2031, 12, 27), DaysFromCivil(2032, 1, 5),
      DaysFromCivil(2032, 6, 1) }

RamadanRows ==
    {SalesRow(store, 100, d, v) : store \in {1, 2}, d \in RamadanDays, v \in {10, 20}}

RamadanTables == {Frame(SalesCols, q) : q \in SeqsUpTo(RamadanRows, MaxJoinRows)}

\* the ramadan_ranges argument: None, or the table of add_is_ramadan_feature
NoRanges == [given |-> FALSE, ranges |-> <<>>]
RangesArgs == { NoRanges, [given |-> TRUE, ranges |-> ramadan_ranges] }

\* inputs of the join adapters: observations of one group on three days
\* around a month end, in any order, in a table that may already have a
\* column 'year' or 'year_month'
JoinDays == {DaysFromCivil(2024, 1, 30), DaysFromCivil(2024, 1, 31), DaysFromCivil(2024, 2, 1)}

ExtraColumns == {{}, {"year"}, {"year_month"}}

WithExtra(r, extra) == [c \in extra |-> "kept"] @@ r

JoinTables ==
    { Frame(SalesCols \cup extra, [i \in 1..Len(q) |-> WithExtra(q[i], extra)]) :
        q \in SeqsUpTo({SalesRow(1, 100, d, 10) : d \in JoinDays}, MaxJoinRows),
        extra \in ExtraColumns }

DistinctDates(q) == \A i, j \in 1..Len(q) : i # j => q[i]["Date"] # q[j]["Date"]

\* FX tables: at most one rate per date
FxTables ==
    { Frame({"Date", "fx_rate"}, q) :
        q \in { x \in SeqsUpTo({[Date |-> [day |-> d, tod |-> 0], fx_rate |-> v] :
                                    d \in JoinDays, v \in {30, 31}}, MaxJoinRows) :
                  DistinctDates(x) } }

\* inflation tables: one index for January 2024 or for February 2024, or both
InflationTables ==
    { Frame({"Date", "inflation_index"}, q) :
        q \in { x \in SeqsUpTo({[Date |-> to_datetime(<<2024, m, 1>>),
                                 inflation_index |-> 100 + m] : m \in {1, 2}}, MaxJoinRows) :
                  DistinctDates(x) } }

\* a stock table: columns Location Code, Item No_, Date, Stock
StockTables ==
    { Frame({"Location Code", "Item No_", "Date", "Stock"},
            << [c \in {"Location Code", "Item No_", "Date", "Stock"} |->
                  CASE c = "Location Code" -> 1
                    [] c = "Item No_" -> 100
                    [] c = "Date" -> [day |-> d, tod |-> 0]
                    [] c = "Stock" -> 5] >>) : d \in JoinDays }

(***************************************************************************)
(* Operations: one call of a feature builder on df, returning out.         *)
(***************************************************************************)
Return(name, result) ==
    /\ pc = "input"
    /\ out' = result
    /\ last' = name
    /\ pc' = "returned"
    /\ UNCHANGED <<df, aux, ranges_arg>>

IsRamadan == Return("add_is_ramadan_feature", add_is_ramadan_feature(df))
IsEidFitr == Return("add_is_eid_fitr_feature", add_is_eid_fitr_feature(df))
IsEidAdha == Return("add_is_eid_adha_feature", add_is_eid_adha_feature(df))
IsGreatLent == Return("add_is_great_lent_feature", add_is_great_lent_feature(df))
RetailEvent == Return("add_retail_event_feature", add_retail_event_feature(df))
IsWeekend == Return("add_is_weekend_feature", add_is_weekend_feature(df))

InitCalendar ==
    /\ df \in CalendarInputs
    /\ aux = EmptyTable
    /\ ranges_arg = NoRanges
    /\ out = EmptyTable
    /\ last = "none"
    /\ pc = "input"

NextCalendar ==
    \/ IsRamadan
    \/ IsEidFitr
    \/ IsEidAdha
    \/ IsGreatLent
    \/ RetailEvent
    \/ IsWeekend

SpecCalendar == InitCalendar /\ [][NextCalendar]_vars

RollingAvg7d == Return("add_rolling_avg_sales_7d", add_rolling_avg_sales_7d(df))
RollingAvg15d == Return("add_rolling_avg_sales_15d", add_rolling_avg_sales_15d(df))
RollingAvg30d == Return("add_rolling_avg_sales_30d", add_rolling_avg_sales_30d(df))
SalesLag1d == Return("add_sales_lag_1d", add_sales_lag_1d(df))
SalesLag7d == Return("add_sales_lag_7d", add_sales_lag_7d(df))
StdDev15d == Return("add_std_dev_sales_15d", add_std_dev_sales_15d(df))
LastYearSamePeriod ==
    Return("add_last_year_same_period_sales", add_last_year_same_period_sales(df))

InitSales ==
    /\ df \in SmallTables \cup SeriesTables
    /\ aux = EmptyTable
    /\ ranges_arg = NoRanges
    /\ out = EmptyTable
    /\ last = "none"
    /\ pc = "input"

NextSales ==
    \/ RollingAvg7d
    \/ RollingAvg15d
    \/ RollingAvg30d
    \/ SalesLag1d
    \/ SalesLag7d
    \/ StdDev15d
    \/ LastYearSamePeriod

SpecSales == InitSales /\ [][NextSales]_vars

TotalSalesLastRamadan ==
    Return("add_total_sales_last_ramadan", add_total_sales_last_ramadan(df, ranges_arg))

InitRamadan ==
    /\ df \in RamadanTables
    /\ aux = EmptyTable
    /\ ranges_arg \in RangesArgs
    /\ out = EmptyTable
    /\ last = "none"
    /\ pc = "input"

NextRamadan ==
    \/ TotalSalesLastRamadan
    \/ IsRamadan

SpecRamadan == InitRamadan /\ [][NextRamadan]_vars

FxRate ==
    /\ "fx_rate" \in aux.cols
    /\ Return("add_fx_rate", add_fx_rate(df, aux))

InflationIndex ==
    /\ "inflation_index" \in aux.cols
    /\ Return("add_inflation_index", add_inflation_index(df, aux))

\* a call that ends in an exception returns no table
CurrentStockQty ==
    /\ pc = "input"
    /\ "Stock" \in aux.cols
    /\ out' = add_current_stock_qty(df, aux).table
    /\ pc' = IF add_current_stock_qty(df, aux).raised THEN "raised" ELSE "returned"
    /\ last' = "add_current_stock_qty"
    /\ UNCHANGED <<df, aux, ranges_arg>>

InitJoin ==
    /\ df \in JoinTables
    /\ aux \in FxTables \cup InflationTables \cup StockTables
    /\ ranges_arg = NoRanges
    /\ out = EmptyTable
    /\ last = "none"
    /\ pc = "input"

NextJoin ==
    \/ FxRate
    \/ InflationIndex
    \/ CurrentStockQty
    \/ TotalSalesLastRamadan
    \/ RollingAvg7d
    \/ IsRamadan

SpecJoin == InitJoin /\ [][NextJoin]_vars

\* inputs of the stock features: a stock that is missing, zero or positive,
\* and averages that are missing, zero, positive or negative, the 15-row
\* average of a row being equal to its 7-row average
CoverCols == {"current_stock_qty", "rolling_avg_7d", "rolling_avg_15d"}

CoverRows ==
    { [c \in CoverCols |->
          CASE c = "current_stock_qty" -> stock
            [] c = "rolling_avg_7d" -> avg
            [] c = "rolling_avg_15d" -> avg] :
        stock \in {<<>>, <<0>>, <<5>>},
        avg \in {<<>>, <<0, 1>>, <<0, 7>>, <<10, 1>>, <<80, 7>>, <<-5, 1>>} }

CoverTables == {Frame(CoverCols, q) : q \in SeqsUpTo(CoverRows, MaxStockRows)}

StockCoverDays == Return("add_stock_cover_days", add_stock_cover_days(df))
SafetyStockThreshold ==
    Return("add_safety_stock_threshold", add_safety_stock_threshold(df))

InitCover ==
    /\ df \in CoverTables
    /\ aux = EmptyTable
    /\ ranges_arg = NoRanges
    /\ out = EmptyTable
    /\ last = "none"
    /\ pc = "input"

NextCover ==
    \/ StockCoverDays
    \/ SafetyStockThreshold

SpecCover == InitCover /\ [][NextCover]_vars

\* A second call of the operation that returned, with the same arguments, on
\* the table it returned: df becomes that table and out the new result.
Again(name, raises, result) ==
    /\ pc = "returned"
    /\ last = name
    /\ df' = out
    /\ out' = IF raises THEN EmptyTable ELSE result
    /\ pc' = IF raises THEN "raised" ELSE "reapplied"
    /\ UNCHANGED <<aux, ranges_arg, last>>

AgainIsRamadan == Again("add_is_ramadan_feature", FALSE, add_is_ramadan_feature(out))
AgainRetailEvent ==
    Again("add_retail_event_feature", FALSE, add_retail_event_feature(out))
AgainIsWeekend == Again("add_is_weekend_feature", FALSE, add_is_weekend_feature(out))
AgainRollingAvg7d ==
    Again("add_rolling_avg_sales_7d", FALSE, add_rolling_avg_sales_7d(out))
AgainSalesLag1d == Again("add_sales_lag_1d", FALSE, add_sales_lag_1d(out))
AgainStdDev15d == Again("add_std_dev_sales_15d", FALSE, add_std_dev_sales_15d(out))
AgainTotalSalesLastRamadan ==
    Again("add_total_sales_last_ramadan", FALSE,
          add_total_sales_last_ramadan(out, ranges_arg))
AgainFxRate == Again("add_fx_rate", add_fx_rate_raises(out), add_fx_rate(out, aux))
AgainInflationIndex ==
    Again("add_inflation_index", add_inflation_index_raises(out),
          add_inflation_index(out, aux))

\* inputs of the repeated calls: the engine's small tables, the join
\* adapters' tables with an FX or inflation table, and observations of one
\* store inside and outside Ramadan
RepeatRamadanTables ==
    { Frame(SalesCols, q) :
        q \in SeqsUpTo({SalesRow(1, 100, d, v) :
                            d \in {DaysFromCivil(2024, 3, 15), DaysFromCivil(2024, 5, 1),
                                   DaysFromCivil(2032, 1, 5)},
                            v \in {10, 20}}, MaxJoinRows) }

InitRepeat ==
    /\ \/ /\ df \in JoinTables
          /\ aux \in FxTables \cup InflationTables
       \/ /\ df \in SmallTables \cup RepeatRamadanTables
          /\ aux = EmptyTable
    /\ ranges_arg = NoRanges
    /\ out = EmptyTable
    /\ last = "none"
    /\ pc = "input"

NextRepeat ==
    \/ IsRamadan
    \/ RetailEvent
    \/ IsWeekend
    \/ RollingAvg7d
    \/ SalesLag1d
    \/ StdDev15d
    \/ TotalSalesLastRamadan
    \/ FxRate
    \/ InflationIndex
    \/ AgainIsRamadan
    \/ AgainRetailEvent
    \/ AgainIsWeekend
    \/ AgainRollingAvg7d
    \/ AgainSalesLag1d
    \/ AgainStdDev15d
    \/ AgainTotalSalesLastRamadan
    \/ AgainFxRate
    \/ AgainInflationIndex

SpecRepeat == InitRepeat /\ [][NextRepeat]_vars

(***************************************************************************)
(* Properties of the calendar event tagger.                                *)
(***************************************************************************)
Returned(op) == pc = "returned" /\ last = op

RowIds(t) == 1..Len(t.rows)

\* the calendar date (year, month, day) of a row of df
CivilOf(i) == CivilFromDays(df.rows[i]["Date"].day)

RetailLabels ==
    {"christmas_dec", "coptic_christmas", "valentines", "mothers_day",
     "black_friday", "back_to_school", "none"}

\* the label of rule k
RuleLabel ==
    <<"christmas_dec", "coptic_christmas", "valentines", "mothers_day",
      "black_friday", "back_to_school">>

\* whether rule k matches the calendar date c with weekday wd (Monday = 0):
\* rule 5 is the last Friday of November, the Friday with no Friday of
\* November after it
RuleMatches(k, c, wd) ==
    CASE k = 1 -> c.month = 12
      [] k = 2 -> c.month = 1 /\ c.day = 7
      [] k = 3 -> c.month = 2 /\ c.day = 14
      [] k = 4 -> c.month = 3 /\ c.day = 21
      [] k = 5 -> c.month = 11 /\ wd = 4 /\ c.day + 7 > 30
      [] k = 6 -> c.month = 8 /\ c.day \in 15..31

FirstMatchLabel(c, wd) ==
    LET hits == {k \in 1..6 : RuleMatches(k, c, wd)}
    IN  IF hits = {} THEN "none"
        ELSE RuleLabel[CHOOSE k \in hits : \A j \in hits : k <= j]

\* C1: add_retail_event_feature gives every date exactly one label of the
\* seven, the label of the first matching rule in the order December, Jan 7,
\* Feb 14, Mar 21, last Friday of November, Aug 15..31, else 'none'; every
\* date in December is labelled christmas_dec.
C1_RetailEventFirstMatch ==
    Returned("add_retail_event_feature") =>
        /\ Len(out.rows) = Len(df.rows)
        /\ \A i \in RowIds(df) :
            /\ out.rows[i]["retail_event"] \in RetailLabels
            /\ out.rows[i]["retail_event"] =
                   FirstMatchLabel(CivilOf(i), dt_weekday(df.rows[i]["Date"]))
            /\ CivilOf(i).month = 12 =>
                   out.rows[i]["retail_event"] = "christmas_dec"

\* witness of C1: a Friday in December, of a leap year, labelled christmas_dec
C1_Witness ==
    /\ Returned("add_retail_event_feature")
    /\ \E i \in RowIds(df) :
        /\ CivilOf(i).month = 12
        /\ CivilOf(i).year = 2024
        /\ dt_weekday(df.rows[i]["Date"]) = 4
        /\ out.rows[i]["retail_event"] = "christmas_dec"

\* the operations that test membership in an interval table, with the table
\* and the output column of each
HolidayOps ==
    {"add_is_ramadan_feature", "add_is_eid_fitr_feature",
     "add_is_eid_adha_feature", "add_is_great_lent_feature"}

HolidayTable(op) ==
    CASE op = "add_is_ramadan_feature" -> ramadan_ranges
      [] op = "add_is_eid_fitr_feature" -> eid_fitr_ranges
      [] op = "add_is_eid_adha_feature" -> eid_adha_ranges
      [] op = "add_is_great_lent_feature" -> lent_periods

HolidayColumn(op) ==
    CASE op = "add_is_ramadan_feature" -> "is_ramadan"
      [] op = "add_is_eid_fitr_feature" -> "is_eid_fitr"
      [] op = "add_is_eid_adha_feature" -> "is_eid_adha"
      [] op = "add_is_great_lent_feature" -> "is_great_lent"

\* start <= d <= end for some range of the table, d being the value of the
\* date column
InSomeRange(d, ranges) ==
    \E k \in 1..Len(ranges) :
        /\ TsLe(to_datetime(ranges[k][1]), d)
        /\ TsLe(d, to_datetime(ranges[k][2]))

\* C2: each holiday flag is true iff start <= d <= end for some range of the
\* feature's table, both ends inclusive, and false without an error outside
\* all ranges, in particular before 2020 and after 2035; 2024-03-15 is in
\* Ramadan and 2024-05-01 is not.
C2_FlagIffInRange ==
    (pc # "input" /\ last \in HolidayOps) =>
        /\ pc = "returned"
        /\ Len(out.rows) = Len(df.rows)
        /\ \A i \in RowIds(df) :
            LET d    == df.rows[i]["Date"]
                flag == out.rows[i][HolidayColumn(last)]
            IN  /\ flag = InSomeRange(d, HolidayTable(last))
                /\ CivilOf(i).year \notin 2020..2035 => flag = FALSE
                /\ (last = "add_is_ramadan_feature" /\ d = to_datetime(<<2024, 3, 15>>))
                       => flag = TRUE
                /\ (last = "add_is_ramadan_feature" /\ d = to_datetime(<<2024, 5, 1>>))
                       => flag = FALSE

\* witness of C2: the last day of a Great Lent range is flagged
C2_Witness ==
    /\ Returned("add_is_great_lent_feature")
    /\ \E i \in RowIds(df) :
        /\ df.rows[i]["Date"] = to_datetime(<<2024, 5, 11>>)
        /\ out.rows[i]["is_great_lent"] = TRUE

\* C3: membership is decided on the calendar date alone: a timestamp on the
\* start date or on the end date of a range is flagged whatever its time of
\* day, and two timestamps of the same calendar date get the same flag.
C3_DateOnlyPrecision ==
    (pc = "returned" /\ last \in HolidayOps) =>
        LET ranges == HolidayTable(last)
            col    == HolidayColumn(last)
        IN  /\ \A i \in RowIds(df) :
                (\E k \in 1..Len(ranges) :
                    \/ df.rows[i]["Date"].day = to_datetime(ranges[k][1]).day
                    \/ df.rows[i]["Date"].day = to_datetime(ranges[k][2]).day)
                => out.rows[i][col] = TRUE
            /\ \A i, j \in RowIds(df) :
                df.rows[i]["Date"].day = df.rows[j]["Date"].day
                => out.rows[i][col] = out.rows[j][col]

(***************************************************************************)
(* Properties of the grouped time-series feature engine.                   *)
(***************************************************************************)
GroupKeys(t) == {<<t.rows[i]["Store No_"], t.rows[i]["Item No_"]>> : i \in RowIds(t)}

\* the rows of group g of df (their positions in df) in ascending date
\* order, rows of the same date in their order in df
DateOrder(g) ==
    LET ids == {i \in RowIds(df) :
                   <<df.rows[i]["Store No_"], df.rows[i]["Item No_"]>> = g}
        pos == [i \in RowIds(df) |->
                   IF i \notin ids THEN 0
                   ELSE Cardinality({j \in ids :
                           \/ df.rows[j]["Date"].day < df.rows[i]["Date"].day
                           \/ /\ df.rows[j]["Date"].day = df.rows[i]["Date"].day
                              /\ j <= i})] \o <<>>
    IN  [k \in 1..Cardinality(ids) |-> CHOOSE i \in ids : pos[i] = k] \o <<>>

\* the sales of group g in that order
SalesInOrder(g) ==
    LET ord == DateOrder(g)
    IN  [k \in 1..Len(ord) |-> df.rows[ord[k]]["Net Amount"]] \o <<>>

\* the row of out that carries the index label of row i of df
OutRow(i) ==
    out.rows[CHOOSE p \in RowIds(out) : out.rows[p]["index"] = df.rows[i]["index"]]

RECURSIVE SumRange(_, _, _)
SumRange(x, a, b) == IF a > b THEN 0 ELSE x[a] + SumRange(x, a + 1, b)

\* the sum over rows a..b of (n * x - sum of rows a..b)^2
RECURSIVE SumSqDev(_, _, _, _, _)
SumSqDev(x, a, b, n, total) ==
    IF a > b THEN 0
    ELSE (n * x[a] - total) * (n * x[a] - total) + SumSqDev(x, a + 1, b, n, total)

Min(a, b) == IF a < b THEN a ELSE b

RollingWindow(op) ==
    CASE op = "add_rolling_avg_sales_7d" -> 7
      [] op = "add_rolling_avg_sales_15d" -> 15
      [] op = "add_rolling_avg_sales_30d" -> 30

RollingColumn(op) ==
    CASE op = "add_rolling_avg_sales_7d" -> "rolling_avg_7d"
      [] op = "add_rolling_avg_sales_15d" -> "rolling_avg_15d"
      [] op = "add_rolling_avg_sales_30d" -> "rolling_avg_30d"

RollingOps ==
    {"add_rolling_avg_sales_7d", "add_rolling_avg_sales_15d", "add_rolling_avg_sales_30d"}

\* C6: rolling_avg_Nd at the k-th row of a group in date order is the mean
\* of the sales of the last min(k, N) rows of the group up to row k, counted
\* by rows; it is never missing, the first row yields its own sales, and a
\* constant series of v yields v everywhere.
C6_RollingMean ==
    (pc # "input" /\ last \in RollingOps) =>
        /\ pc = "returned"
        /\ Len(out.rows) = Len(df.rows)
        /\ \A g \in GroupKeys(df) :
            LET ord == DateOrder(g)
                x   == SalesInOrder(g)
            IN  \A k \in 1..Len(ord) :
                    LET v == OutRow(ord[k])[RollingColumn(last)]
                        n == Min(k, RollingWindow(last))
                    IN  /\ Len(v) = 2
                        /\ v[2] > 0
                        /\ v[1] * n = SumRange(x, k - n + 1, k) * v[2]
                        /\ k = 1 => v[1] = x[1] * v[2]
                        /\ (\A m \in 1..Len(x) : x[m] = x[1]) => v[1] = x[1] * v[2]

\* witness of C6: the step series 10 x 7, 20, ...: at the 8th row the 7-row
\* mean is 80/7, the first row having left the window
C6_Witness ==
    /\ Returned("add_rolling_avg_sales_7d")
    /\ \E p \in RowIds(out) :
        /\ out.rows[p]["Date"] = to_datetime(<<2024, 1, 8>>)
        /\ Len(out.rows[p]["rolling_avg_7d"]) = 2
        /\ out.rows[p]["rolling_avg_7d"][1] * 7 = 80 * out.rows[p]["rolling_avg_7d"][2]

\* C7: std_dev_sales_15d is missing at the first row of every group and
\* defined at every later row, where it is the sample standard deviation
\* (divisor n-1) of the last n = min(k, 15) rows; on a constant series it is
\* 0 from the second row on.  (The column holds the square of the standard
\* deviation, so the equality is stated on the variance.)
C7_SampleStd ==
    (pc # "input" /\ last = "add_std_dev_sales_15d") =>
        /\ pc = "returned"
        /\ Len(out.rows) = Len(df.rows)
        /\ \A g \in GroupKeys(df) :
            LET ord == DateOrder(g)
                x   == SalesInOrder(g)
            IN  \A k \in 1..Len(ord) :
                    LET v == OutRow(ord[k])["std_dev_sales_15d"]
                        n == Min(k, 15)
                        total == SumRange(x, k - n + 1, k)
                    IN  IF k = 1 THEN v = <<>>
                        ELSE /\ Len(v) = 2
                             /\ v[2] > 0
                             /\ v[1] * (n * n * (n - 1))
                                    = SumSqDev(x, k - n + 1, k, n, total) * v[2]
                             /\ (\A m \in 1..Len(x) : x[m] = x[1]) => v[1] = 0

\* witness of C7: a full 15-row window with a positive deviation, in a group
\* of more than 15 rows
C7_Witness ==
    /\ Returned("add_std_dev_sales_15d")
    /\ \E g \in GroupKeys(df) :
        /\ Len(DateOrder(g)) > 15
        /\ Len(OutRow(DateOrder(g)[16])["std_dev_sales_15d"]) = 2
        /\ OutRow(DateOrder(g)[16])["std_dev_sales_15d"][1] > 0
        /\ OutRow(DateOrder(g)[1])["std_dev_sales_15d"] = <<>>

LagOps == {"add_sales_lag_1d", "add_sales_lag_7d", "add_last_year_same_period_sales"}

LagPeriods(op) ==
    CASE op = "add_sales_lag_1d" -> 1
      [] op = "add_sales_lag_7d" -> 7
      [] op = "add_last_year_same_period_sales" -> 365

LagColumn(op) ==
    CASE op = "add_sales_lag_1d" -> "sales_lag_1d"
      [] op = "add_sales_lag_7d" -> "sales_lag_7d"
      [] op = "add_last_year_same_period_sales" -> "last_year_same_period_sales"

\* C8: for the lags N = 1, 7, 365 the value at 0-based row i of a group in
\* date order is the sales of row i-N of the same group when i >= N and is
\* missing when i < N; it never comes from a row of another group.
C8_LagWithinGroup ==
    (pc # "input" /\ last \in LagOps) =>
        /\ pc = "returned"
        /\ Len(out.rows) = Len(df.rows)
        /\ \A g \in GroupKeys(df) :
            LET ord == DateOrder(g)
                x   == SalesInOrder(g)
                N   == LagPeriods(last)
            IN  \A k \in 1..Len(ord) :
                    OutRow(ord[k])[LagColumn(last)] =
                        IF k > N THEN <<x[k - N]>> ELSE <<>>

\* witness of C8: a 365-row lag that has a value, with rows of another group
\* next to the group in the sorted table
C8_Witness ==
    /\ Returned("add_last_year_same_period_sales")
    /\ Cardinality(GroupKeys(df)) > 1
    /\ \E p \in RowIds(out) : out.rows[p]["last_year_same_period_sales"] # <<>>

(***************************************************************************)
(* Properties of the Ramadan aggregate.                                    *)
(***************************************************************************)
\* C4: add_total_sales_last_ramadan sums exactly the observations whose
\* date is in a range of the table that decides is_ramadan: an observation
\* is in ramadan_df, the rows that are summed, iff is_ramadan is true for it.
C4_SameRamadanTable ==
    Returned("add_total_sales_last_ramadan") =>
        LET rdf     == RamadanDf(df.rows, ResolveRanges(ranges_arg), 1)
            flagged == add_is_ramadan_feature(df)
        IN  \A i \in RowIds(df) :
                (\E p \in 1..Len(rdf) : rdf[p]["index"] = df.rows[i]["index"])
                    <=> flagged.rows[i]["is_ramadan"]

\* the ranges of the call, as written (year, month, day)
RangesOfCall == IF ranges_arg.given THEN ranges_arg.ranges ELSE default_ramadan_ranges

\* the (row, range) pairs that count for row i: rows of its group inside a
\* range whose start date is in the calendar year of row i
Contributions(i) ==
    {<<j, k>> \in RowIds(df) \X (1..Len(RangesOfCall)) :
        /\ df.rows[j]["Store No_"] = df.rows[i]["Store No_"]
        /\ df.rows[j]["Item No_"] = df.rows[i]["Item No_"]
        /\ RangesOfCall[k][1][1] = CivilOf(i).year
        /\ DaysFromCivil(RangesOfCall[k][1][1], RangesOfCall[k][1][2],
                         RangesOfCall[k][1][3]) <= df.rows[j]["Date"].day
        /\ df.rows[j]["Date"].day <=
               DaysFromCivil(RangesOfCall[k][2][1], RangesOfCall[k][2][2],
                             RangesOfCall[k][2][3])}

RECURSIVE SumOfPairs(_)
SumOfPairs(pairs) ==
    IF pairs = {} THEN 0
    ELSE LET pr == CHOOSE q \in pairs : TRUE
         IN  df.rows[pr[1]]["Net Amount"] + SumOfPairs(pairs \ {pr})

HasRate(i) == \E j \in RowIds(aux) : aux.rows[j]["Date"] = df.rows[i]["Date"]

RateOf(i) ==
    aux.rows[CHOOSE j \in RowIds(aux) : aux.rows[j]["Date"] = df.rows[i]["Date"]]["fx_rate"]

\* the rows of df of an earlier date whose date has a known rate
EarlierKnown(i) ==
    {j \in RowIds(df) : HasRate(j) /\ df.rows[j]["Date"].day < df.rows[i]["Date"].day}

\* C9: add_fx_rate gives a row without an FX row for its date the rate of
\* the chronologically latest earlier date with a known rate, whatever the
\* order of the input rows, and leaves it missing before the first date
\* with a known rate; a filled value never comes from a later date.
C9_ChronologicalFill ==
    Returned("add_fx_rate") =>
        /\ Len(out.rows) = Len(df.rows)
        /\ \A i \in RowIds(df) :
            out.rows[i]["fx_rate"] =
                IF HasRate(i) THEN <<RateOf(i)>>
                ELSE IF EarlierKnown(i) = {} THEN <<>>
                ELSE <<RateOf(CHOOSE j \in EarlierKnown(i) :
                         \A k \in EarlierKnown(i) :
                             df.rows[k]["Date"].day <= df.rows[j]["Date"].day)>>

\* C10: every operation returns a table with every column of its input,
\* under the same name and with the same value on every row, plus the new
\* column(s); no input column is overwritten or removed, also when the input
\* has a column named 'year' or 'year_month'.
C10_InputColumnsKept ==
    (pc # "input") =>
        /\ pc = "returned"
        /\ df.cols \subseteq out.cols
        /\ out.cols # df.cols
        /\ Len(out.rows) = Len(df.rows)
        /\ \A i \in RowIds(df) :
            /\ \E p \in RowIds(out) : out.rows[p]["index"] = df.rows[i]["index"]
            /\ \A c \in df.cols :
                /\ c \in DOMAIN OutRow(i)
                /\ OutRow(i)[c] = df.rows[i][c]

(***************************************************************************)
(* Properties of repeated calls.                                           *)
(***************************************************************************)
\* C11: every operation is idempotent: the operation applied with the same
\* arguments to its own output succeeds and returns a table equal to that
\* output, with the same columns, the same rows and the same values.
C11_Idempotent ==
    pc \in {"reapplied", "raised"} =>
        /\ pc = "reapplied"
        /\ out.cols = df.cols
        /\ out.rows = df.rows

(***************************************************************************)
(* Properties of the stock features.                                       *)
(***************************************************************************)
\* C12: add_stock_cover_days yields a missing value, and neither an
\* exception nor an infinity, for every row whose average sales is zero or
\* missing; for every row whose average sales is present and not zero and
\* whose stock is present it yields stock divided by average sales.
C12_StockCoverDays ==
    (pc # "input" /\ last = "add_stock_cover_days") =>
        /\ pc = "returned"
        /\ Len(out.rows) = Len(df.rows)
        /\ \A i \in RowIds(df) :
            LET stock == df.rows[i]["current_stock_qty"]
                avg   == df.rows[i]["rolling_avg_7d"]
                v     == out.rows[i]["stock_cover_days"]
            IN  /\ v \notin {<<1, 0>>, <<-1, 0>>}
                /\ (avg = <<>> \/ avg[1] = 0) => v = <<>>
                /\ (avg # <<>> /\ avg[1] # 0 /\ stock # <<>>) =>
                       /\ Len(v) = 2
                       /\ v[2] # 0
                       /\ v[1] * avg[1] = stock[1] * avg[2] * v[2]

\* witness of C12: one row with a positive stock and a zero average, which
\* gets a missing value, and one with stock 5 and average 80/7, which gets
\* 35/80
C12_Witness ==
    /\ Returned("add_stock_cover_days")
    /\ \E i, j \in RowIds(df) :
        /\ df.rows[i]["current_stock_qty"] = <<5>>
        /\ df.rows[i]["rolling_avg_7d"] = <<0, 7>>
        /\ out.rows[i]["stock_cover_days"] = <<>>
        /\ df.rows[j]["current_stock_qty"] = <<5>>
        /\ df.rows[j]["rolling_avg_7d"] = <<80, 7>>
        /\ out.rows[j]["stock_cover_days"] = <<35, 80>>

(***************************************************************************)
(* Further properties of the calendar event tagger.                        *)
(***************************************************************************)
\* the number of days from the latest Friday to day d (0 on a Friday, 1 on a
\* Saturday, ...), 2024-01-05 being a Friday
DaysSinceFriday(d) == (d - DaysFromCivil(2024, 1, 5)) % 7

\* C13: add_is_weekend_feature sets is_weekend to true iff the date is a
\* Friday or a Saturday and to false from Sunday to Thursday, for every
\* date.
C13_WeekendFridaySaturday ==
    (pc # "input" /\ last = "add_is_weekend_feature") =>
        /\ pc = "returned"
        /\ Len(out.rows) = Len(df.rows)
        /\ \A i \in RowIds(df) :
            /\ out.rows[i]["is_weekend"] \in BOOLEAN
            /\ out.rows[i]["is_weekend"]
                   = (DaysSinceFriday(df.rows[i]["Date"].day) \in {0, 1})

\* witness of C13: Saturday 2024-01-06 with a time of day is a weekend day
\* and, in another observation of the same day, so is its midnight
C13_Witness ==
    /\ Returned("add_is_weekend_feature")
    /\ \E i, j \in RowIds(df) :
        /\ df.rows[i]["Date"] = [day |-> DaysFromCivil(2024, 1, 6), tod |-> 1]
        /\ df.rows[j]["Date"] = [day |-> DaysFromCivil(2024, 1, 6), tod |-> 0]
        /\ out.rows[i]["is_weekend"] = TRUE
        /\ out.rows[j]["is_weekend"] = TRUE

\* the days of November of year y that get_retail_event labels black_friday
BlackFridays(y, tod) ==
    {e \in DaysFromCivil(y, 11, 1)..DaysFromCivil(y, 11, 30) :
        get_retail_event([day |-> e, tod |-> tod]) = "black_friday"}

\* C16: a date is labelled black_friday iff it is in November, a Friday,
\* and seven days later is not in November; every other Friday of November
\* is labelled 'none'; in every year exactly one date is labelled
\* black_friday, the last Friday of November.
C16_BlackFriday ==
    Returned("add_retail_event_feature") =>
        \A i \in RowIds(df) :
            LET d      == df.rows[i]["Date"]
                c      == CivilOf(i)
                friday == DaysSinceFriday(d.day) = 0
                label  == out.rows[i]["retail_event"]
                bf     == BlackFridays(c.year, d.tod)
            IN  /\ (label = "black_friday") <=>
                       /\ c.month = 11
                       /\ friday
                       /\ CivilFromDays(d.day + 7).month # 11
                /\ (c.month = 11 /\ friday /\ label # "black_friday") => label = "none"
                /\ c.month = 11 =>
                       /\ Cardinality(bf) = 1
                       /\ \A e \in bf :
                           /\ DaysSinceFriday(e) = 0
                           /\ e + 7 > DaysFromCivil(c.year, 11, 30)

\* witness of C16: 2024-11-29, the last Friday of November 2024, is
\* labelled black_friday
C16_Witness ==
    /\ Returned("add_retail_event_feature")
    /\ \E i \in RowIds(df) :
        /\ df.rows[i]["Date"].day = DaysFromCivil(2024, 11, 29)
        /\ out.rows[i]["retail_event"] = "black_friday"

(***************************************************************************)
(* Further properties of the grouped time-series feature engine.           *)
(***************************************************************************)
EngineOps == RollingOps \cup LagOps \cup {"add_std_dev_sales_15d"}

EngineColumn(op) ==
    IF op \in RollingOps THEN RollingColumn(op)
    ELSE IF op \in LagOps THEN LagColumn(op)
    ELSE "std_dev_sales_15d"

\* the positions in out of the rows of group g, in the order of out
RECURSIVE OutPositions(_, _)
OutPositions(g, p) ==
    IF p > Len(out.rows) THEN <<>>
    ELSE (IF <<out.rows[p]["Store No_"], out.rows[p]["Item No_"]>> = g
          THEN <<p>> ELSE <<>>) \o OutPositions(g, p + 1)

\* the value an engine operation yields at the k-th row of the series x
ValueAt(op, x, k, v) ==
    IF op \in LagOps
    THEN v = (IF k > LagPeriods(op) THEN <<x[k - LagPeriods(op)]>> ELSE <<>>)
    ELSE IF op \in RollingOps
    THEN LET n == Min(k, RollingWindow(op))
         IN  /\ Len(v) = 2
             /\ v[2] > 0
             /\ v[1] * n = SumRange(x, k - n + 1, k) * v[2]
    ELSE LET n     == Min(k, 15)
             total == SumRange(x, k - n + 1, k)
         IN  IF k = 1 THEN v = <<>>
             ELSE /\ Len(v) = 2
                  /\ v[2] > 0
                  /\ v[1] * (n * n * (n - 1)) = SumSqDev(x, k - n + 1, k, n, total) * v[2]

\* C14: whatever the order of the input rows, each rolling and lag operation
\* returns and evaluates the rows of a group in ascending date order, rows
\* of the same group and date in the order they had in the input (their
\* index labels ascending): the operation sorts the table itself.
C14_StableDateOrder ==
    (pc # "input" /\ last \in EngineOps) =>
        /\ pc = "returned"
        /\ Len(out.rows) = Len(df.rows)
        /\ \A i \in RowIds(df) :
            /\ \E p \in RowIds(out) : out.rows[p]["index"] = df.rows[i]["index"]
            /\ \A c \in SalesCols : OutRow(i)[c] = df.rows[i][c]
        /\ \A g \in GroupKeys(df) :
            LET ord == OutPositions(g, 1)
                x   == [k \in 1..Len(ord) |-> out.rows[ord[k]]["Net Amount"]] \o <<>>
            IN  /\ \A k \in 1..(Len(ord) - 1) :
                    LET a == out.rows[ord[k]]
                        b == out.rows[ord[k + 1]]
                    IN  \/ a["Date"].day < b["Date"].day
                        \/ /\ a["Date"].day = b["Date"].day
                           /\ a["index"] < b["index"]
                /\ \A k \in 1..Len(ord) :
                    ValueAt(last, x, k, out.rows[ord[k]][EngineColumn(last)])

\* witness of C14: an input in which a row of a later date comes before two
\* rows of an earlier date of the same group with different sales; the lag
\* of the second of the two is the sales of the first, and the lag of the
\* later row is the sales of the second
C14_Witness ==
    /\ Returned("add_sales_lag_1d")
    /\ \E i, j, k \in RowIds(df) :
        /\ i < j
        /\ j < k
        /\ \A c \in {"Store No_", "Item No_"} :
            df.rows[i][c] = df.rows[j][c] /\ df.rows[j][c] = df.rows[k][c]
        /\ df.rows[i]["Date"].day > df.rows[j]["Date"].day
        /\ df.rows[j]["Date"] = df.rows[k]["Date"]
        /\ df.rows[j]["Net Amount"] # df.rows[k]["Net Amount"]
        /\ OutRow(j)["sales_lag_1d"] = <<>>
        /\ OutRow(k)["sales_lag_1d"] = <<df.rows[j]["Net Amount"]>>
        /\ OutRow(i)["sales_lag_1d"] = <<df.rows[k]["Net Amount"]>>

\* the rows of df of group g when keep, of the other groups when not, in
\* the order of df
RECURSIVE SelectRows(_, _, _)
SelectRows(g, keep, i) ==
    IF i > Len(df.rows) THEN <<>>
    ELSE (IF (<<df.rows[i]["Store No_"], df.rows[i]["Item No_"]>> = g) = keep
          THEN <<df.rows[i]>> ELSE <<>>) \o SelectRows(g, keep, i + 1)

\* the shard of group g: the rows of g alone
Shard(g) == [cols |-> df.cols, rows |-> SelectRows(g, TRUE, 1)]

\* a table with the same rows of group g in the same relative order and
\* other rows of the other groups: those of df in reverse order, before the
\* rows of g, with other sales
OthersChanged(g) ==
    LET others == SelectRows(g, FALSE, 1)
        n      == Len(others)
    IN  [cols |-> df.cols,
         rows |-> ([k \in 1..n |->
                      SetCol(others[n + 1 - k], "Net Amount",
                             others[n + 1 - k]["Net Amount"] + k)] \o <<>>)
                  \o SelectRows(g, TRUE, 1)]

ApplyOp(op, t) ==
    CASE op = "add_rolling_avg_sales_7d" -> add_rolling_avg_sales_7d(t)
      [] op = "add_rolling_avg_sales_15d" -> add_rolling_avg_sales_15d(t)
      [] op = "add_rolling_avg_sales_30d" -> add_rolling_avg_sales_30d(t)
      [] op = "add_sales_lag_1d" -> add_sales_lag_1d(t)
      [] op = "add_sales_lag_7d" -> add_sales_lag_7d(t)
      [] op = "add_std_dev_sales_15d" -> add_std_dev_sales_15d(t)
      [] op = "add_last_year_same_period_sales" -> add_last_year_same_period_sales(t)

\* every row of group g of table t has, in column col, the value of the row
\* of out with the same index label
SameValues(t, g, col) ==
    \A p \in RowIds(t) :
        <<t.rows[p]["Store No_"], t.rows[p]["Item No_"]>> = g =>
            \E q \in RowIds(out) :
                /\ out.rows[q]["index"] = t.rows[p]["index"]
                /\ out.rows[q][col] = t.rows[p][col]

\* C15: the rolling, standard-deviation and lag values of the rows of a
\* group depend on the rows of that group alone: the operation applied to
\* the shard of group g, and to a table with the same rows of g and other
\* rows of the other groups, gives every row of g the value it gets on the
\* whole table.
C15_GroupIndependence ==
    (pc # "input" /\ last \in EngineOps) =>
        /\ pc = "returned"
        /\ \A g \in GroupKeys(df) :
            LET shard  == ApplyOp(last, Shard(g))
                others == ApplyOp(last, OthersChanged(g))
            IN  /\ Len(shard.rows) = Len(SelectRows(g, TRUE, 1))
                /\ SameValues(shard, g, EngineColumn(last))
                /\ SameValues(others, g, EngineColumn(last))

\* witness of C15: a row of another group lies between two rows of a group
\* in the input, with other sales, and the lag of the later row is the sales
\* of the earlier row of its own group
C15_Witness ==
    /\ Returned("add_sales_lag_1d")
    /\ \E i, j, k \in RowIds(df) :
        /\ i < j
        /\ j < k
        /\ df.rows[i]["Store No_"] = df.rows[k]["Store No_"]
        /\ df.rows[i]["Item No_"] = df.rows[k]["Item No_"]
        /\ df.rows[j]["Store No_"] # df.rows[i]["Store No_"]
        /\ df.rows[i]["Date"].day < df.rows[k]["Date"].day
        /\ df.rows[j]["Net Amount"] # df.rows[i]["Net Amount"]
        /\ OutRow(k)["sales_lag_1d"] = <<df.rows[i]["Net Amount"]>>

====
